---- MODULE Spec2Model ----
(***************************************************************************)
(* A model of the dataset script (temp.py) and of the model loading        *)
(* helpers (load_model.py).                                                *)
(*                                                                         *)
(* Text is modelled as sequences of characters.  Four characters stand for *)
(* the four roles a character can play in the CoNLL reader: an ordinary    *)
(* character, a space (whitespace only), a tab (whitespace and the column  *)
(* separator) and a newline (whitespace and the line terminator).          *)
(***************************************************************************)
EXTENDS Integers, Sequences, FiniteSets, TLC

VARIABLES
    pc,          \* position of the running script / call
    file,        \* contents of the .tsv file read or written
    sentences,   \* list of {"tokens": [...], "ner_tags": [...]} records
    written,     \* the list handed to dump_conll_file
    nrows,       \* len(test): rows of the dataset that is split
    idxs,        \* list(range(len(test)))
    idxs_test,   \* random.sample(idxs, int(len(idxs) * 0.2))
    idxs_val,    \* the indices not sampled
    call,        \* the loader call made: function, arguments, environment
    result,      \* what the call did: exception, value, calls made, locals
    causal_lm_names, \* MODEL_FOR_CAUSAL_LM_MAPPING_NAMES, a module global
    train_file,  \* contents of dataset/italian/train.tsv
    test_file,   \* contents of dataset/italian/test.tsv
    train,       \* the script's variable train
    test,        \* the script's variable test
    val          \* the script's variable val

conllVars == <<file, sentences, written>>
splitVars == <<nrows, idxs, idxs_test, idxs_val>>
loadVars == <<call, result, causal_lm_names>>
scriptVars == <<train_file, test_file, train, test, val>>
vars == <<pc, file, sentences, written, nrows, idxs, idxs_test, idxs_val, call, result,
          causal_lm_names, train_file, test_file, train, test, val>>

(***************************************************************************)
(* Bounds of the explored inputs.                                          *)
(***************************************************************************)
MaxFileLen == 8      \* characters in an input file
MaxSize == 10        \* weight of a sentence list handed to dump_conll_file
MaxRows == 22        \* rows of the dataset that is split
MaxSentences == 6    \* sentences in train.tsv and in test.tsv

CH == "a"
SP == "SP"
TAB == "TAB"
NL == "NL"
Alphabet == {CH, SP, TAB, NL}

(***************************************************************************)
(* src/temp.py: read_conll_file                                            *)
(***************************************************************************)

\* str.strip() with no argument removes these from both ends.
IsSpace(c) == c \in {SP, TAB, NL}

\* index of the first occurrence of c in s, 0 when there is none
IndexOf(s, c) ==
    IF \E i \in 1..Len(s) : s[i] = c
    THEN CHOOSE i \in 1..Len(s) : s[i] = c /\ \A j \in 1..(i - 1) : s[j] # c
    ELSE 0

\* "for line in f": every line keeps its terminating newline; a last line
\* without one is yielded too, an empty rest is not.
RECURSIVE FileLines(_)
FileLines(f) ==
    IF f = <<>> THEN <<>>
    ELSE LET i == IndexOf(f, NL) IN
         IF i = 0 THEN <<f>>
         ELSE <<SubSeq(f, 1, i)>> \o FileLines(SubSeq(f, i + 1, Len(f)))

RECURSIVE lstrip(_)
lstrip(s) ==
    IF s # <<>> /\ IsSpace(Head(s)) THEN lstrip(Tail(s)) ELSE s

RECURSIVE rstrip(_)
rstrip(s) ==
    IF s # <<>> /\ IsSpace(s[Len(s)]) THEN rstrip(SubSeq(s, 1, Len(s) - 1)) ELSE s

\* line.strip()
strip(s) == rstrip(lstrip(s))

\* line.split("\t"): always at least one part
RECURSIVE split(_, _)
split(s, sep) ==
    LET i == IndexOf(s, sep) IN
    IF i = 0 THEN <<s>>
    ELSE <<SubSeq(s, 1, i - 1)>> \o split(SubSeq(s, i + 1, Len(s)), sep)

Sentence(tokens, tags) == [tokens |-> tokens, ner_tags |-> tags]

\* a blank line: "if tokens:" close the sentence and start a new one
EndOfSentence(st) ==
    IF st.tokens # <<>>
    THEN [sentences |-> Append(st.sentences, Sentence(st.tokens, st.tags)),
          tokens |-> <<>>, tags |-> <<>>]
    ELSE st

\* mutation of TokenLine: any line with at least two parts is taken
TokenLine_AtLeastTwo(st, parts) ==
    IF Len(parts) >= 2
    THEN [st EXCEPT !.tokens = Append(@, parts[1]), !.tags = Append(@, parts[2])]
    ELSE st

\* a non-blank line: kept when it splits into exactly two parts, else skipped
TokenLine(st, parts) ==
    IF Len(parts) = 2
    THEN [st EXCEPT !.tokens = Append(@, parts[1]), !.tags = Append(@, parts[2])]
    ELSE st

\* mutation of LastSentence: the file's last sentence is lost when no blank
\* line follows it
LastSentence_Dropped(st) == st.sentences

\* after the loop: "in case file does not end with an empty line"
LastSentence(st) ==
    IF st.tokens # <<>>
    THEN Append(st.sentences, Sentence(st.tokens, st.tags))
    ELSE st.sentences

\* one iteration of the loop over the lines
ReadLine(st, rawline) ==
    LET line == strip(rawline) IN
    IF line = <<>> THEN EndOfSentence(st)
    ELSE TokenLine(st, split(line, TAB))

RECURSIVE ReadLoop(_, _)
ReadLoop(st, lines) ==
    IF lines = <<>> THEN st
    ELSE ReadLoop(ReadLine(st, Head(lines)), Tail(lines))

read_conll_file(f) ==
    LastSentence(ReadLoop([sentences |-> <<>>, tokens |-> <<>>, tags |-> <<>>],
                          FileLines(f)))

(***************************************************************************)
(* src/temp.py: dump_conll_file                                            *)
(***************************************************************************)

Min(a, b) == IF a < b THEN a ELSE b

\* zip(sentence["tokens"], sentence["ner_tags"]) stops at the shorter list;
\* each pair is written as token, tab, tag, newline
RECURSIVE DumpPairs(_, _, _)
DumpPairs(tokens, tags, i) ==
    IF i > Min(Len(tokens), Len(tags)) THEN <<>>
    ELSE tokens[i] \o <<TAB>> \o tags[i] \o <<NL>> \o DumpPairs(tokens, tags, i + 1)

\* mutation of DumpSentence: the blank line after the sentence is not written
DumpSentence_NoBlank(s) == DumpPairs(s.tokens, s.ner_tags, 1)

\* one sentence: its pairs, then an empty line
DumpSentence(s) == DumpPairs(s.tokens, s.ner_tags, 1) \o <<NL>>

RECURSIVE dump_conll_file(_)
dump_conll_file(ss) ==
    IF ss = <<>> THEN <<>>
    ELSE DumpSentence(Head(ss)) \o dump_conll_file(Tail(ss))

(***************************************************************************)
(* Inputs of the two file functions.                                       *)
(***************************************************************************)

\* every file of at most MaxFileLen characters
Files == UNION {[1..n -> Alphabet] : n \in 0..MaxFileLen}

\* Sentence lists are bounded by weight: an ordinary character weighs 1, a
\* whitespace character 2, and every string and every sentence 1 more.
CharWeight(c) == IF IsSpace(c) THEN 2 ELSE 1

RECURSIVE TextWeight(_)
TextWeight(s) == IF s = <<>> THEN 0 ELSE CharWeight(Head(s)) + TextWeight(Tail(s))

RECURSIVE ListWeight(_)
ListWeight(q) == IF q = <<>> THEN 0 ELSE 1 + TextWeight(Head(q)) + ListWeight(Tail(q))

RECURSIVE Weight(_)
Weight(ss) ==
    IF ss = <<>> THEN 0
    ELSE 1 + ListWeight(Head(ss).tokens) + ListWeight(Head(ss).ner_tags)
           + Weight(Tail(ss))

(***************************************************************************)
(* Reading a file, and writing a list then reading it back.                *)
(***************************************************************************)

NoSplit == nrows = 0 /\ idxs = <<>> /\ idxs_test = <<>> /\ idxs_val = <<>>
NoLoad == call = [fn |-> "none"] /\ result = [exc |-> "none"] /\ causal_lm_names = {}

\* a name of the script that is not bound yet
Unbound == [t |-> "unbound"]
NoScript ==
    /\ train_file = <<>> /\ test_file = <<>>
    /\ train = Unbound /\ test = Unbound /\ val = Unbound

InitRead ==
    /\ pc = "read_start"
    /\ file \in Files
    /\ sentences = <<>>
    /\ written = <<>>
    /\ NoSplit /\ NoLoad /\ NoScript

\* sentences = read_conll_file(filepath)
ReadFile ==
    /\ pc = "read_start"
    /\ sentences' = read_conll_file(file)
    /\ pc' = "read_done"
    /\ UNCHANGED <<file, written, splitVars, loadVars, scriptVars>>

SpecRead == InitRead /\ [][ReadFile]_vars

InitRoundTrip ==
    /\ pc = "compose"
    /\ written = <<>>
    /\ file = <<>>
    /\ sentences = <<>>
    /\ NoSplit /\ NoLoad /\ NoScript

\* The caller composes the list it will hand to dump_conll_file: it may be any
\* list of records of two lists of strings.  The list grows at its end.
Compose(ss) ==
    /\ pc = "compose"
    /\ Weight(ss) <= MaxSize
    /\ written' = ss
    /\ UNCHANGED <<pc, file, sentences, splitVars, loadVars, scriptVars>>

NewSentence == Compose(Append(written, Sentence(<<>>, <<>>)))

NewToken ==
    /\ written # <<>>
    /\ Compose([written EXCEPT ![Len(written)].tokens = Append(@, <<>>)])

NewTag ==
    /\ written # <<>>
    /\ Compose([written EXCEPT ![Len(written)].ner_tags = Append(@, <<>>)])

TokenChar ==
    /\ written # <<>>
    /\ written[Len(written)].tokens # <<>>
    /\ \E c \in Alphabet :
          Compose([written EXCEPT ![Len(written)].tokens =
                      [@ EXCEPT ![Len(@)] = Append(@, c)]])

TagChar ==
    /\ written # <<>>
    /\ written[Len(written)].ner_tags # <<>>
    /\ \E c \in Alphabet :
          Compose([written EXCEPT ![Len(written)].ner_tags =
                      [@ EXCEPT ![Len(@)] = Append(@, c)]])

\* dump_conll_file(filepath, sentences, name)
DumpFile ==
    /\ pc = "compose"
    /\ file' = dump_conll_file(written)
    /\ pc' = "dumped"
    /\ UNCHANGED <<sentences, written, splitVars, loadVars, scriptVars>>

\* read_conll_file on the file just written
RereadFile ==
    /\ pc = "dumped"
    /\ sentences' = read_conll_file(file)
    /\ pc' = "reread"
    /\ UNCHANGED <<file, written, splitVars, loadVars, scriptVars>>

NextRoundTrip ==
    \/ NewSentence \/ NewToken \/ NewTag \/ TokenChar \/ TagChar
    \/ DumpFile
    \/ RereadFile

SpecRoundTrip == InitRoundTrip /\ [][NextRoundTrip]_vars

(***************************************************************************)
(* Properties of read_conll_file and dump_conll_file.                      *)
(***************************************************************************)

\* a blank line: empty, or whitespace only
IsBlank(l) == \A i \in 1..Len(l) : IsSpace(l[i])

\* the tabs of a line between its first and its last non-whitespace character
InnerTabs(l) == {i \in 1..Len(strip(l)) : strip(l)[i] = TAB}

\* a token line: a token, one tab, a tag
IsTokenLine(l) == Cardinality(InnerTabs(l)) = 1

\* the lines that start a blank-line-delimited group
GroupStarts(lines) ==
    {i \in 1..Len(lines) : ~IsBlank(lines[i]) /\ (i = 1 \/ IsBlank(lines[i - 1]))}

\* the group that starts at line i holds a token line
GroupHasTokenLine(lines, i) ==
    \E k \in i..Len(lines) :
        IsTokenLine(lines[k]) /\ \A m \in i..k : ~IsBlank(lines[m])

\* C1 as stated: the number of sentences returned by read_conll_file equals
\* the number of blank-line-delimited groups of lines of the file, also when
\* a group holds lines that do not split into two tab-separated parts.
C1_SentencesEqualGroups ==
    pc = "read_done" => Len(sentences) = Cardinality(GroupStarts(FileLines(file)))

\* C1 amended: the number of sentences returned by read_conll_file equals the
\* number of blank-line-delimited groups that hold at least one line which,
\* stripped, splits into exactly two tab-separated parts.
C1_SentencesEqualTokenGroups ==
    pc = "read_done" =>
        Len(sentences) =
            Cardinality({i \in GroupStarts(FileLines(file)) :
                            GroupHasTokenLine(FileLines(file), i)})

\* C1 witness: a file read into at least one sentence that has more groups
\* than sentences
C1_Witness ==
    /\ pc = "read_done"
    /\ Len(sentences) >= 1
    /\ Cardinality(GroupStarts(FileLines(file))) > Len(sentences)

\* the (token, tag) pair of a token line
PairOfLine(l) ==
    LET s == strip(l)
        i == CHOOSE t \in InnerTabs(l) : TRUE
    IN <<SubSeq(s, 1, i - 1), SubSeq(s, i + 1, Len(s))>>

\* the pairs of the token lines of a file, in file order
RECURSIVE TokenLinePairs(_)
TokenLinePairs(lines) ==
    IF lines = <<>> THEN <<>>
    ELSE (IF IsTokenLine(Head(lines)) THEN <<PairOfLine(Head(lines))>> ELSE <<>>)
         \o TokenLinePairs(Tail(lines))

\* the (tokens[i], ner_tags[i]) pairs of a list of sentences, in order
RECURSIVE SentencePairs(_)
SentencePairs(ss) ==
    IF ss = <<>> THEN <<>>
    ELSE [i \in 1..Len(Head(ss).tokens) |-> <<Head(ss).tokens[i], Head(ss).ner_tags[i]>>]
         \o SentencePairs(Tail(ss))

\* C4: read_conll_file gives every sentence as many tags as tokens, and the
\* pairs of all returned sentences, concatenated in order, are exactly the
\* token lines of the file in file order: none dropped, duplicated or placed
\* in two sentences.
C4_EveryTokenLineInOneSentence ==
    pc = "read_done" =>
        /\ \A k \in 1..Len(sentences) :
              Len(sentences[k].tokens) = Len(sentences[k].ner_tags)
        /\ SentencePairs(sentences) = TokenLinePairs(FileLines(file))

\* C4 witness: a file read into two sentences
C4_Witness == pc = "read_done" /\ Len(sentences) = 2

\* C2 as stated: every list of sentences written by dump_conll_file is read
\* back by read_conll_file as the same list.
C2_RoundTrip == pc = "reread" => sentences = written

\* a string the reader gives back as it was written, as a token or as a tag
PlainText(s) == s # <<>> /\ \A i \in 1..Len(s) : s[i] \notin {TAB, NL}

\* a list of sentences the file format can hold
Writable(ss) ==
    \A k \in 1..Len(ss) :
        /\ ss[k].tokens # <<>>
        /\ Len(ss[k].tokens) = Len(ss[k].ner_tags)
        /\ \A i \in 1..Len(ss[k].tokens) :
              PlainText(ss[k].tokens[i]) /\ ~IsSpace(Head(ss[k].tokens[i]))
        /\ \A i \in 1..Len(ss[k].ner_tags) :
              /\ PlainText(ss[k].ner_tags[i])
              /\ ~IsSpace(ss[k].ner_tags[i][Len(ss[k].ner_tags[i])])

\* C2 amended: a list of sentences written by dump_conll_file is read back as
\* the same list when every sentence has at least one token and as many tags
\* as tokens, and every token and tag is non-empty, holds no tab and no
\* newline, no token starts with whitespace and no tag ends with whitespace.
C2_RoundTripWritable == pc = "reread" /\ Writable(written) => sentences = written

\* C2 witness: a list of two sentences the format can hold was written and
\* read back
C2_Witness == pc = "reread" /\ Writable(written) /\ Len(written) = 2

(***************************************************************************)
(* src/temp.py: the split of the test dataset into val and test.           *)
(***************************************************************************)

\* list(range(n))
Range(n) == [i \in 1..n |-> i - 1]

\* int(n * 0.2): the double nearest to 0.2 lies just above 1/5, so the
\* product is never below n/5 and int() truncates it to the floor of n/5
SampleSize(n) == n \div 5

\* the least e with 4^e >= x, for x >= 1: ceil(log(x, 4))
CeilLog4(x) == CHOOSE e \in 0..x : 4^e >= x /\ (e = 0 \/ 4^(e - 1) < x)

\* random.sample takes its picks from a shrinking pool when the population
\* is small, and by rejecting repeated picks when it is larger.  The
\* population counts as small up to 21 elements, and up to
\* 21 + 4^ceil(log(3k, 4)) when k > 5.
UsesPool(n, k) == n <= (IF k > 5 THEN 21 + 4^CeilLog4(3 * k) ELSE 21)

\* the pool branch: result[i] = pool[j]; pool[j] = pool[n - i - 1], where
\* rnd[i + 1] is the value randbelow(n - i) returned
RECURSIVE SampleFromPool(_, _, _, _)
SampleFromPool(pool, i, k, rnd) ==
    IF i = k THEN <<>>
    ELSE LET j == rnd[i + 1] IN
         <<pool[j + 1]>>
         \o SampleFromPool([pool EXCEPT ![j + 1] = pool[Len(pool) - i]], i + 1, k, rnd)

\* the streams of randbelow results the pool branch can see
PoolStreams(n, k) == {rnd \in [1..k -> 0..(n - 1)] : \A i \in 1..k : rnd[i] <= n - i}

\* the selection branch: randbelow(n) is drawn again while the pick is in
\* "selected", so the picks it keeps are distinct; rnd holds the kept picks
SampleBySelection(population, k, rnd) == [i \in 1..k |-> population[rnd[i] + 1]]

SelectionStreams(n, k) ==
    {rnd \in [1..k -> 0..(n - 1)] : \A i, j \in 1..k : i # j => rnd[i] # rnd[j]}

\* random.sample(population, k), for every stream the generator may give
Samples(population, k) ==
    IF UsesPool(Len(population), k)
    THEN {SampleFromPool(population, 0, k, rnd) : rnd \in PoolStreams(Len(population), k)}
    ELSE {SampleBySelection(population, k, rnd) :
             rnd \in SelectionStreams(Len(population), k)}

InSeq(x, q) == \E i \in 1..Len(q) : q[i] = x

\* mutation of NotSampled: the sampled indices are not taken out
NotSampled_All(all, sampled) == all

\* [idx for idx in idxs if idx not in idxs_test]
NotSampled(all, sampled) ==
    LET keep(idx) == ~InSeq(idx, sampled) IN SelectSeq(all, keep)

NoConll == file = <<>> /\ sentences = <<>> /\ written = <<>>

InitSplit ==
    /\ pc = "seed"
    /\ nrows \in 0..MaxRows
    /\ idxs = <<>> /\ idxs_test = <<>> /\ idxs_val = <<>>
    /\ NoConll /\ NoLoad /\ NoScript

\* random.seed(42); idxs = list(range(len(test)))
MakeIdxs ==
    /\ pc = "seed"
    /\ idxs' = Range(nrows)
    /\ pc' = "sample"
    /\ UNCHANGED <<nrows, idxs_test, idxs_val, conllVars, loadVars, scriptVars>>

\* idxs_test = random.sample(idxs, int(len(idxs) * 0.2))
SampleTest ==
    /\ pc = "sample"
    /\ idxs_test' \in Samples(idxs, SampleSize(Len(idxs)))
    /\ pc' = "filter"
    /\ UNCHANGED <<nrows, idxs, idxs_val, conllVars, loadVars, scriptVars>>

\* idxs_val = [idx for idx in idxs if idx not in idxs_test]
FilterVal ==
    /\ pc = "filter"
    /\ idxs_val' = NotSampled(idxs, idxs_test)
    /\ pc' = "split_done"
    /\ UNCHANGED <<nrows, idxs, idxs_test, conllVars, loadVars, scriptVars>>

SpecSplit == InitSplit /\ [][MakeIdxs \/ SampleTest \/ FilterVal]_vars

Elems(q) == {q[i] : i \in 1..Len(q)}
NoRepeat(q) == \A i, j \in 1..Len(q) : i # j => q[i] # q[j]

\* C3: the index lists idxs_val and idxs_test computed by the split are
\* disjoint, neither repeats an index, and together they are exactly the
\* indices 0..n-1 of the n rows.
C3_SplitIsPartition ==
    pc = "split_done" =>
        /\ Elems(idxs_val) \cap Elems(idxs_test) = {}
        /\ Elems(idxs_val) \cup Elems(idxs_test) = 0..(nrows - 1)
        /\ NoRepeat(idxs_val) /\ NoRepeat(idxs_test)

\* C3 witness: a split that put several indices in each list
C3_Witness == pc = "split_done" /\ Len(idxs_test) >= 2 /\ Len(idxs_val) >= 2

(***************************************************************************)
(* src/temp.py: the script, from the reading of train.tsv and test.tsv to  *)
(* the printing of the longest sentences.                                  *)
(***************************************************************************)

\* the values the script binds train, test and val to
ListV(items) == [t |-> "list", items |-> items]
DatasetV(tokens, tags) == [t |-> "Dataset", tokens |-> tokens, ner_tags |-> tags]

\* len(dataset): the number of rows
DatasetLen(d) == Len(d.tokens)

\* the rows "for item in dataset" yields, a dict per row
Rows(d) == [i \in 1..DatasetLen(d) |-> Sentence(d.tokens[i], d.ner_tags[i])]

\* "for item in x": the dicts of a list, the rows of a Dataset
Items(x) == IF x.t = "list" THEN x.items ELSE Rows(x)

\* Dataset.from_dict({"tokens": [item["tokens"] for item in x],
\*                    "ner_tags": [item["ner_tags"] for item in x]})
FromItems(x) ==
    DatasetV([i \in 1..Len(Items(x)) |-> Items(x)[i].tokens],
             [i \in 1..Len(Items(x)) |-> Items(x)[i].ner_tags])

\* dataset.select(indices): the rows at the indices, which count from 0
Select(d, indices) ==
    DatasetV([i \in 1..Len(indices) |-> d.tokens[indices[i] + 1]],
             [i \in 1..Len(indices) |-> d.ner_tags[indices[i] + 1]])

\* the sentences met in the two files: one token each, told apart by it
ScriptSentences == {Sentence(<<<<CH>>>>, <<<<CH>>>>), Sentence(<<<<CH, CH>>>>, <<<<CH>>>>)}

\* the files: every list of at most MaxSentences sentences, as written in
\* the format the reader takes
ScriptFiles ==
    {dump_conll_file(ss) : ss \in UNION {[1..n -> ScriptSentences] : n \in 0..MaxSentences}}

InitScript ==
    /\ pc = "script_start"
    /\ train_file \in ScriptFiles
    /\ test_file \in ScriptFiles
    /\ train = Unbound /\ test = Unbound /\ val = Unbound
    /\ NoSplit /\ NoConll /\ NoLoad

\* train = read_conll_file(train)
ReadTrain ==
    /\ pc = "script_start"
    /\ train' = ListV(read_conll_file(train_file))
    /\ pc' = "train_read"
    /\ UNCHANGED <<train_file, test_file, test, val, conllVars, splitVars, loadVars>>

\* train = Dataset.from_dict({... for item in train})
BuildTrain ==
    /\ pc = "train_read"
    /\ train' = FromItems(train)
    /\ pc' = "train_built"
    /\ UNCHANGED <<train_file, test_file, test, val, conllVars, splitVars, loadVars>>

\* test = read_conll_file(test)
ReadTest ==
    /\ pc = "train_built"
    /\ test' = ListV(read_conll_file(test_file))
    /\ pc' = "test_read"
    /\ UNCHANGED <<train_file, test_file, train, val, conllVars, splitVars, loadVars>>

\* test = Dataset.from_dict({... for item in train}): the items are those of
\* train; len(test) is what the split reads next
BuildTest ==
    /\ pc = "test_read"
    /\ test' = FromItems(train)
    /\ nrows' = DatasetLen(test')
    /\ pc' = "seed"
    /\ UNCHANGED <<train_file, test_file, train, val, idxs, idxs_test, idxs_val,
                   conllVars, loadVars>>

\* val = test.select(idxs_val); test = test.select(idxs_test)
SelectSplit ==
    /\ pc = "split_done"
    /\ val' = Select(test, idxs_val)
    /\ test' = Select(test, idxs_test)
    /\ pc' = "selected"
    /\ UNCHANGED <<train_file, test_file, train, conllVars, splitVars, loadVars>>

\* val = Dataset.from_dict({... for item in val}), and the same for test
RebuildSplit ==
    /\ pc = "selected"
    /\ val' = FromItems(val)
    /\ test' = FromItems(test)
    /\ pc' = "rebuilt"
    /\ UNCHANGED <<train_file, test_file, train, conllVars, splitVars, loadVars>>

\* print(max(...), max(...), max(...)): max of an empty list raises ValueError
PrintMax ==
    /\ pc = "rebuilt"
    /\ pc' = IF DatasetLen(train) = 0 \/ DatasetLen(val) = 0 \/ DatasetLen(test) = 0
             THEN "script_error" ELSE "script_done"
    /\ UNCHANGED <<conllVars, splitVars, loadVars, scriptVars>>

NextScript ==
    \/ ReadTrain \/ BuildTrain \/ ReadTest \/ BuildTest
    \/ MakeIdxs \/ SampleTest \/ FilterVal
    \/ SelectSplit \/ RebuildSplit \/ PrintMax

SpecScript == InitScript /\ [][NextScript]_vars

\* the script has made idxs / has selected val and test
IdxsMade ==
    pc \in {"sample", "filter", "split_done", "selected", "rebuilt",
            "script_done", "script_error"}
SplitSelected == pc \in {"selected", "rebuilt", "script_done", "script_error"}

\* C13 as stated: the indices that are split are 0..n-1 with n the number of
\* sentences read from test.tsv, and every sentence of val and of test is a
\* sentence of test.tsv.
C13_SplitOfTestFile ==
    LET parsed == read_conll_file(test_file) IN
    /\ IdxsMade => idxs = Range(Len(parsed))
    /\ SplitSelected =>
          /\ Elems(Rows(val)) \subseteq Elems(parsed)
          /\ Elems(Rows(test)) \subseteq Elems(parsed)

(***************************************************************************)
(* src/load_model.py.  Python values are records tagged with their type;   *)
(* the calls into transformers, bitsandbytes, optimum and peft are taken   *)
(* to succeed, and are recorded in the order they are made.                *)
(***************************************************************************)

NoneV == [t |-> "None"]
IntV(n) == [t |-> "int", n |-> n]
StrV(x) == [t |-> "str", s |-> x]
DtypeV(x) == [t |-> "dtype", name |-> x]
DictV(r) == [t |-> "dict", rank |-> r]

\* the decimal texts met in the arguments and in the environment
IntTexts == {"0", "1", "2", "4", "8", "16"}
IntOfText(x) ==
    CASE x = "0" -> 0 [] x = "1" -> 1 [] x = "2" -> 2
      [] x = "4" -> 4 [] x = "8" -> 8 [] x = "16" -> 16

\* the names torch has among those met here: "bloat16" is none of them, and
\* neither is any model type
TorchAttrs == {"float32", "float16", "bfloat16"}

\* getattr(torch, name)
TorchGetattr(name) ==
    IF name \in TorchAttrs
    THEN [exc |-> "none", value |-> DtypeV(name)]
    ELSE [exc |-> "AttributeError", value |-> NoneV]

\* MODEL_FOR_SEQ_TO_SEQ_CAUSAL_LM_MAPPING_NAMES and
\* MODEL_FOR_CAUSAL_LM_MAPPING_NAMES as transformers ships them, as far as the
\* model types met here go
SEQ2SEQ_NAMES == {"t5"}
CAUSAL_NAMES == {"llama"}
ADDED_CAUSAL_NAMES == {"mpt", "RefinedWebModel", "RefinedWeb"}

Raise(st, e) == [st EXCEPT !.exc = e]
Called(st, name) == [st EXCEPT !.calls = Append(@, name)]
\* a statement runs only when no exception is under way: every statement
\* below leaves the locals as they are once one is
Running(st) == st.exc = "none"

\* ---- find_all_linear_names
\* isinstance(module, cls): the bitsandbytes layers subclass torch.nn.Linear
IsInstance(c, cls) == c = cls \/ (cls = "Linear" /\ c \in {"Linear4bit", "Linear8bitLt"})

\* names[0] if len(names) == 1 else names[-1], names the dotted path
LoraName(path) == IF Len(path) = 1 THEN path[1] ELSE path[Len(path)]

\* the if/elif/else that picks the layer class to look for
LinearClass(quantization) ==
    IF quantization = NoneV THEN [exc |-> "none", cls |-> "Linear"]
    ELSE IF quantization = IntV(4) THEN [exc |-> "none", cls |-> "Linear4bit"]
    ELSE IF quantization = IntV(8) THEN [exc |-> "none", cls |-> "Linear8bitLt"]
    ELSE [exc |-> "ValueError", cls |-> "none"]

find_all_linear_names(modules, quantization) ==
    LET c == LinearClass(quantization) IN
    IF c.exc # "none"
    THEN [exc |-> c.exc, scanned |-> FALSE, names |-> {}]
    ELSE [exc |-> "none", scanned |-> TRUE,
          names |-> {LoraName(m.path) : m \in {x \in modules : IsInstance(x.cls, c.cls)}}
                    \ {"lm_head"}]

\* ---- get_device_map
\* int(os.environ.get(name, default))
EnvInt(env, name, default) ==
    IF env[name] = "unset" THEN default ELSE IntOfText(env[name])

\* mutation of get_device_map: the DDP check of the auto device map is gone
get_device_map_NoCheck(force_auto_device_map, use_better_transformer, env) ==
    IF force_auto_device_map THEN [exc |-> "none", value |-> StrV("auto")]
    ELSE IF EnvInt(env, "LOCAL_WORLD_SIZE", 1) > 1
    THEN [exc |-> "none", value |-> DictV(EnvInt(env, "LOCAL_RANK", 0))]
    ELSE IF ~use_better_transformer THEN [exc |-> "none", value |-> NoneV]
    ELSE [exc |-> "none", value |-> StrV("auto")]

get_device_map(force_auto_device_map, use_better_transformer, env) ==
    IF force_auto_device_map
    THEN IF EnvInt(env, "LOCAL_WORLD_SIZE", 1) > 1
         THEN [exc |-> "ValueError", value |-> NoneV]
         ELSE [exc |-> "none", value |-> StrV("auto")]
    ELSE IF EnvInt(env, "LOCAL_WORLD_SIZE", 1) > 1
    THEN [exc |-> "none", value |-> DictV(EnvInt(env, "LOCAL_RANK", 0))]
    ELSE IF ~use_better_transformer THEN [exc |-> "none", value |-> NoneV]
    ELSE [exc |-> "none", value |-> StrV("auto")]

\* ---- statements shared by load_model_for_training and load_model_for_inference

\* if type(quantization) == str: quantization = int(quantization)
ConvertQuantization(st) ==
    IF ~Running(st) THEN st ELSE
    IF st.quantization.t # "str" THEN st
    ELSE IF st.quantization.s \in IntTexts
    THEN [st EXCEPT !.quantization = IntV(IntOfText(st.quantization.s))]
    ELSE Raise(st, "ValueError")

\* mutation of AssertQuantization: the value is not checked
AssertQuantization_Off(st) == st

\* assert (quantization is None) or (quantization in [4, 8])
AssertQuantization(st) ==
    IF ~Running(st) THEN st ELSE
    IF st.quantization = NoneV \/ st.quantization \in {IntV(4), IntV(8)}
    THEN st
    ELSE Raise(st, "AssertionError")

\* device_map = get_device_map(force_auto_device_map, use_better_transformer)
DeviceMap(st) ==
    IF ~Running(st) THEN st ELSE
    LET r == get_device_map(st.force_auto_device_map, st.use_better_transformer, st.env)
        s1 == Called(st, "get_device_map")
    IN IF r.exc # "none" THEN Raise(s1, r.exc) ELSE [s1 EXCEPT !.device_map = r.value]

\* MODEL_FOR_CAUSAL_LM_MAPPING_NAMES.update({...})
UpdateCausalNames(st) ==
    IF ~Running(st) THEN st ELSE
    [st EXCEPT !.causal_names = @ \cup ADDED_CAUSAL_NAMES]

\* config = AutoConfig.from_pretrained(...)
LoadConfig(st) ==
    IF ~Running(st) THEN st ELSE
    [Called(st, "AutoConfig.from_pretrained") EXCEPT !.model_type = st.env.model_type]

\* tokenizer = AutoTokenizer.from_pretrained(...)
LoadTokenizer(st) ==
    IF ~Running(st) THEN st ELSE
    [Called(st, "AutoTokenizer.from_pretrained") EXCEPT
        !.tokenizer = [loaded |-> TRUE, padding_side |-> "default",
                       pad_token |-> IF st.env.pad = "has" THEN "pad" ELSE "None",
                       added |-> FALSE]]

\* torch_dtype if torch_dtype in ["auto", None] else getattr(torch, torch_dtype)
ResolveDtype(st) ==
    IF ~Running(st) THEN st ELSE
    IF st.torch_dtype \in {StrV("auto"), NoneV} THEN st
    ELSE LET r == TorchGetattr(st.torch_dtype.s) IN
         IF r.exc # "none" THEN Raise(st, r.exc) ELSE [st EXCEPT !.torch_dtype = r.value]

\* the name looked up on torch for the 4-bit compute dtype when torch_dtype
\* is "auto" or None: torch.bloat16 in training, getattr(torch,
\* config.model_type) in inference
DefaultComputeDtypeName(st) == IF st.fn = "training" THEN "bloat16" ELSE st.model_type

\* if quantization is not None: ... BitsAndBytesConfig(...) else: bnb_config = None
QuantizationConfig(st) ==
    IF ~Running(st) THEN st ELSE
    IF st.quantization = NoneV THEN st
    ELSE IF st.quantization = IntV(4)
    THEN LET r == IF st.torch_dtype \in {StrV("auto"), NoneV}
                  THEN TorchGetattr(DefaultComputeDtypeName(st))
                  ELSE [exc |-> "none", value |-> st.torch_dtype]
         IN IF r.exc # "none" THEN Raise(st, r.exc)
            ELSE [Called(st, "BitsAndBytesConfig") EXCEPT
                     !.bnb_config = [t |-> "bnb", bits |-> 4, compute_dtype |-> r.value]]
    ELSE [Called(st, "BitsAndBytesConfig") EXCEPT
             !.bnb_config = [t |-> "bnb", bits |-> 8, compute_dtype |-> NoneV]]

\* the modules of a loaded model: quantized loading replaces the linear
\* layers, the head stays a torch.nn.Linear
ModulesOf(quantization) ==
    LET lin == IF quantization = IntV(4) THEN "Linear4bit"
               ELSE IF quantization = NoneV THEN "Linear" ELSE "Linear8bitLt"
    IN {[path |-> <<"model", "layers", "q_proj">>, cls |-> lin],
        [path |-> <<"model", "layers", "v_proj">>, cls |-> lin],
        [path |-> <<"model", "embed_tokens">>, cls |-> "Embedding"],
        [path |-> <<"lm_head">>, cls |-> "Linear"]}

LoadedModel(st, kind) ==
    [loaded |-> TRUE, kind |-> kind, device_map |-> st.device_map,
     torch_dtype |-> st.torch_dtype, quantization_config |-> st.bnb_config,
     better |-> FALSE, peft |-> "none"]

\* if config.model_type in MODEL_FOR_SEQ_TO_SEQ_CAUSAL_LM_MAPPING_NAMES: ...
\* elif config.model_type in MODEL_FOR_CAUSAL_LM_MAPPING_NAMES: ... else: raise
LoadModel(st) ==
    IF ~Running(st) THEN st ELSE
    IF st.model_type \in SEQ2SEQ_NAMES
    THEN [Called(st, "AutoModelForSeq2SeqLM.from_pretrained") EXCEPT
             !.model = LoadedModel(st, "seq2seq"), !.tokenizer.padding_side = "right"]
    ELSE IF st.model_type \in st.causal_names
    THEN [Called(st, "AutoModelForCausalLM.from_pretrained") EXCEPT
             !.model = LoadedModel(st, "causal"), !.tokenizer.padding_side = "left"]
    ELSE Raise(st, "ValueError")

\* if use_better_transformer: model = BetterTransformer.transform(model)
BetterTransform(st) ==
    IF ~Running(st) THEN st ELSE
    IF st.use_better_transformer
    THEN [Called(st, "BetterTransformer.transform") EXCEPT !.model.better = TRUE]
    ELSE st

\* if tokenizer.pad_token_id is None: "<|padding|>", else unk, else eos
FixPadToken(st) ==
    IF ~Running(st) THEN st ELSE
    IF st.tokenizer.pad_token # "None" THEN st
    ELSE IF st.env.pad = "padding_in_vocab"
    THEN [Called(st, "tokenizer.add_special_tokens") EXCEPT
             !.tokenizer.pad_token = "<|padding|>"]
    ELSE IF st.env.pad = "unk" THEN [st EXCEPT !.tokenizer.pad_token = "unk"]
    ELSE [st EXCEPT !.tokenizer.pad_token = "eos"]

\* return model, tokenizer
Return(st) ==
    IF ~Running(st) THEN st ELSE
    [st EXCEPT !.returned = TRUE]

\* ---- load_model_for_training

Locals(fn, a, e, names) ==
    [fn |-> fn, exc |-> "none", calls |-> <<>>, returned |-> FALSE, env |-> e,
     causal_names |-> names,
     quantization |-> a.quantization,
     use_lora |-> a.use_lora,
     lora_weights_name_or_path |-> a.lora_weights_name_or_path,
     lora_target_modules |-> a.lora_target_modules,
     torch_dtype |-> a.torch_dtype,
     add_labels_as_tokens |-> a.add_labels_as_tokens,
     force_auto_device_map |-> a.force_auto_device_map,
     use_gradient_checkpointing |-> a.use_gradient_checkpointing,
     use_better_transformer |-> a.use_better_transformer,
     device_map |-> [t |-> "unset"], model_type |-> "unset", bnb_config |-> NoneV,
     model |-> [loaded |-> FALSE], tokenizer |-> [loaded |-> FALSE]]

\* mutation of OverrideBetterTransformer: the flag is left as passed
OverrideBetterTransformer_Kept(st) == st

\* if use_better_transformer: ... use_better_transformer = False
OverrideBetterTransformer(st) ==
    IF ~Running(st) THEN st ELSE
    IF st.use_better_transformer THEN [st EXCEPT !.use_better_transformer = FALSE] ELSE st

\* mutation of RequireLora: quantization without LoRA is let through
RequireLora_Off(st) == st

\* if quantization is not None and not use_lora: raise ValueError
RequireLora(st) ==
    IF ~Running(st) THEN st ELSE
    IF st.quantization # NoneV /\ ~st.use_lora THEN Raise(st, "ValueError") ELSE st

\* if "<" not in tokenizer.tokenize("<")[0] and not add_labels_as_tokens: raise
CheckLessThan(st) ==
    IF ~Running(st) THEN st ELSE
    IF ~st.env.lt_ok /\ ~st.add_labels_as_tokens THEN Raise(st, "ValueError") ELSE st

\* if add_labels_as_tokens: tokenizer.add_tokens(labels); model.resize_...
AddLabels(st) ==
    IF ~Running(st) THEN st ELSE
    IF st.add_labels_as_tokens
    THEN [Called(Called(st, "tokenizer.add_tokens"), "model.resize_token_embeddings")
             EXCEPT !.tokenizer.added = TRUE]
    ELSE st

\* if quantization is not None: prepare_model_for_kbit_training(...)
\* else: if use_gradient_checkpointing: model.gradient_checkpointing_enable()
PrepareForTraining(st) ==
    IF ~Running(st) THEN st ELSE
    IF st.quantization # NoneV THEN Called(st, "prepare_model_for_kbit_training")
    ELSE IF st.use_gradient_checkpointing
    THEN Called(st, "model.gradient_checkpointing_enable")
    ELSE st

\* lora_target_modules = find_all_linear_names(model, quantization=quantization)
FindTargetModules(st) ==
    LET r == find_all_linear_names(ModulesOf(st.quantization), st.quantization)
        s1 == Called(st, "find_all_linear_names")
    IN IF r.exc # "none" THEN Raise(s1, r.exc)
       ELSE [s1 EXCEPT !.lora_target_modules = [t |-> "list", names |-> r.names]]

NoTargetModules(v) == v = NoneV \/ (v.t = "list" /\ v.names = {})

\* config = LoraConfig(...); model = get_peft_model(model, config)
NewLora(st) ==
    IF ~Running(st) THEN st ELSE
    [Called(Called(st, "LoraConfig"), "get_peft_model") EXCEPT !.model.peft = "peft"]

\* if use_lora: ... random weights on the target modules, or the given weights
ApplyLora(st) ==
    IF ~Running(st) THEN st ELSE
    IF ~st.use_lora THEN st
    ELSE LET s1 == Called(st, "model.enable_input_require_grads") IN
         IF st.lora_weights_name_or_path = NoneV
         THEN LET s2 == IF NoTargetModules(s1.lora_target_modules)
                        THEN FindTargetModules(s1) ELSE s1
              IN NewLora(s2)
         ELSE [Called(s1, "PeftModel.from_pretrained") EXCEPT !.model.peft = "peft"]

\* trainable_params, total_params, ... = get_trainable_parameters(model)
TrainableParameters(st) ==
    IF ~Running(st) THEN st ELSE
    Called(st, "get_trainable_parameters")

load_model_for_training(a, e, names) ==
    LET s0 == Locals("training", a, e, names)
        s1 == ConvertQuantization(s0)
        s2 == AssertQuantization(s1)
        s3 == OverrideBetterTransformer(s2)
        s4 == RequireLora(s3)
        s5 == DeviceMap(s4)
        s6 == UpdateCausalNames(s5)
        s7 == LoadConfig(s6)
        s8 == LoadTokenizer(s7)
        s9 == CheckLessThan(s8)
        s10 == ResolveDtype(s9)
        s11 == QuantizationConfig(s10)
        s12 == LoadModel(s11)
        s13 == BetterTransform(s12)
        s14 == AddLabels(s13)
        s15 == FixPadToken(s14)
        s16 == PrepareForTraining(s15)
        s17 == ApplyLora(s16)
        s18 == TrainableParameters(s17)
    IN Return(s18)

\* ---- load_model_for_inference

\* mutation of InferenceLora: the adapter is merged whatever the quantization
InferenceLora_AlwaysMerged(st) ==
    IF ~Running(st) THEN st ELSE
    IF st.lora_weights_name_or_path \in {NoneV, StrV("")} THEN st
    ELSE [Called(Called(st, "PeftModel.from_pretrained"), "model.merge_and_unload")
             EXCEPT !.model.peft = "merged"]

\* if lora_weights_name_or_path: PeftModel.from_pretrained; merged into the
\* model when there is no quantization
InferenceLora(st) ==
    IF ~Running(st) THEN st ELSE
    IF st.lora_weights_name_or_path \in {NoneV, StrV("")} THEN st
    ELSE LET s1 == [Called(st, "PeftModel.from_pretrained") EXCEPT !.model.peft = "peft"]
         IN IF st.quantization = NoneV
            THEN [Called(s1, "model.merge_and_unload") EXCEPT !.model.peft = "merged"]
            ELSE s1

\* the parameters load_model_for_inference does not have are given the
\* values that make the training-only statements do nothing
InferenceArgs(a) ==
    [quantization |-> a.quantization,
     use_lora |-> FALSE,
     lora_weights_name_or_path |-> a.lora_weights_name_or_path,
     lora_target_modules |-> NoneV,
     torch_dtype |-> a.torch_dtype,
     add_labels_as_tokens |-> FALSE,
     force_auto_device_map |-> a.force_auto_device_map,
     use_gradient_checkpointing |-> FALSE,
     use_better_transformer |-> a.use_better_transformer]

load_model_for_inference(a, e, names) ==
    LET s0 == Locals("inference", InferenceArgs(a), e, names)
        s1 == ConvertQuantization(s0)
        s2 == AssertQuantization(s1)
        s3 == DeviceMap(s2)
        s4 == UpdateCausalNames(s3)
        s5 == LoadConfig(s4)
        s6 == ResolveDtype(s5)
        s7 == LoadTokenizer(s6)
        s8 == QuantizationConfig(s7)
        s9 == LoadModel(s8)
        s10 == BetterTransform(s9)
        s11 == FixPadToken(s10)
        s12 == InferenceLora(s11)
    IN Return(s12)

(***************************************************************************)
(* Calls of the loader functions, for every argument and environment.      *)
(***************************************************************************)

Quantizations == {NoneV, IntV(4), IntV(8), IntV(16), StrV("4"), StrV("16"), StrV("x")}
TorchDtypes == {NoneV, StrV("auto"), StrV("bfloat16")}
ModelTypes == {"t5", "llama", "mpt", "bert"}

Envs ==
    [LOCAL_WORLD_SIZE : {"unset", "1", "2"},
     LOCAL_RANK : {"unset", "1"},
     model_type : ModelTypes,
     lt_ok : BOOLEAN,
     pad : {"has", "padding_in_vocab", "unk", "eos"}]

TrainingArgs ==
    [quantization : Quantizations,
     use_lora : BOOLEAN,
     lora_weights_name_or_path : {NoneV, StrV("lora")},
     lora_target_modules : {NoneV, [t |-> "list", names |-> {"q_proj"}]},
     torch_dtype : TorchDtypes,
     add_labels_as_tokens : BOOLEAN,
     force_auto_device_map : BOOLEAN,
     use_gradient_checkpointing : BOOLEAN,
     use_better_transformer : BOOLEAN]

InferenceCallArgs ==
    [quantization : Quantizations,
     lora_weights_name_or_path : {NoneV, StrV(""), StrV("lora")},
     torch_dtype : TorchDtypes,
     force_auto_device_map : BOOLEAN,
     use_better_transformer : BOOLEAN]

InitLoad ==
    /\ pc = "idle"
    /\ call = [fn |-> "none"]
    /\ result = [exc |-> "none"]
    /\ causal_lm_names = CAUSAL_NAMES
    /\ NoConll /\ NoScript
    /\ nrows = 0 /\ idxs = <<>> /\ idxs_test = <<>> /\ idxs_val = <<>>

CallTraining ==
    /\ pc = "idle"
    /\ \E a \in TrainingArgs, e \in Envs :
          /\ call' = [fn |-> "training", args |-> a, env |-> e]
          /\ result' = load_model_for_training(a, e, causal_lm_names)
    /\ causal_lm_names' = result'.causal_names
    /\ pc' = "done"
    /\ UNCHANGED <<conllVars, splitVars, scriptVars>>

CallInference ==
    /\ pc = "idle"
    /\ \E a \in InferenceCallArgs, e \in Envs :
          /\ call' = [fn |-> "inference", args |-> a, env |-> e]
          /\ result' = load_model_for_inference(a, e, causal_lm_names)
    /\ causal_lm_names' = result'.causal_names
    /\ pc' = "done"
    /\ UNCHANGED <<conllVars, splitVars, scriptVars>>

CallGetDeviceMap ==
    /\ pc = "idle"
    /\ \E f \in BOOLEAN, b \in BOOLEAN, e \in Envs :
          /\ call' = [fn |-> "get_device_map",
                      args |-> [force_auto_device_map |-> f, use_better_transformer |-> b],
                      env |-> e]
          /\ result' = get_device_map(f, b, e)
    /\ pc' = "done"
    /\ UNCHANGED <<causal_lm_names, conllVars, splitVars, scriptVars>>

CallFindAllLinearNames ==
    /\ pc = "idle"
    /\ \E q \in Quantizations, m \in Quantizations :
          /\ call' = [fn |-> "find_all_linear_names",
                      args |-> [model |-> ModulesOf(m), quantization |-> q]]
          /\ result' = find_all_linear_names(ModulesOf(m), q)
    /\ pc' = "done"
    /\ UNCHANGED <<causal_lm_names, conllVars, splitVars, scriptVars>>

NextLoad == CallTraining \/ CallInference \/ CallGetDeviceMap \/ CallFindAllLinearNames

SpecLoad == InitLoad /\ [][NextLoad]_vars

(***************************************************************************)
(* Properties of the loader functions.                                     *)
(***************************************************************************)

LoaderCalled == pc = "done" /\ call.fn \in {"training", "inference"}

HasCall(names) == \E i \in 1..Len(result.calls) : result.calls[i] \in names

\* LOCAL_WORLD_SIZE is set to a number greater than 1
InDDP(e) == e.LOCAL_WORLD_SIZE \notin {"unset", "0", "1"}

ConfigCalls == {"AutoConfig.from_pretrained"}
ModelCalls ==
    {"AutoModelForSeq2SeqLM.from_pretrained", "AutoModelForCausalLM.from_pretrained"}
LoadingCalls == ConfigCalls \cup {"AutoTokenizer.from_pretrained"} \cup ModelCalls
AdapterCalls ==
    {"prepare_model_for_kbit_training", "model.enable_input_require_grads",
     "find_all_linear_names", "LoraConfig", "get_peft_model",
     "PeftModel.from_pretrained", "model.merge_and_unload"}

\* C5: with force_auto_device_map True and LOCAL_WORLD_SIZE greater than 1,
\* get_device_map raises ValueError and returns no device map, whatever
\* use_better_transformer and LOCAL_RANK are; when load_model_for_training or
\* load_model_for_inference made the call, they end with that ValueError and
\* have made no config, tokenizer or model loading call.
C5_AutoDeviceMapUnderDDPRaises ==
    /\ pc = "done" /\ call.fn = "get_device_map"
       /\ call.args.force_auto_device_map /\ InDDP(call.env)
       => result.exc = "ValueError" /\ result.value = NoneV
    /\ LoaderCalled /\ HasCall({"get_device_map"})
       /\ call.args.force_auto_device_map /\ InDDP(call.env)
       => /\ result.exc = "ValueError"
          /\ result.device_map = [t |-> "unset"]
          /\ ~HasCall(LoadingCalls)
          /\ ~result.returned

\* C5 witness: load_model_for_inference reached get_device_map with the auto
\* device map forced, in a DDP environment, with better transformers asked for
C5_Witness ==
    /\ LoaderCalled /\ call.fn = "inference" /\ HasCall({"get_device_map"})
    /\ call.args.force_auto_device_map /\ InDDP(call.env)
    /\ call.args.use_better_transformer /\ call.env.LOCAL_RANK # "unset"

\* the quantization values the loaders accept
ValidQuantizations == {NoneV, IntV(4), IntV(8), StrV("4"), StrV("8")}

\* C6: an invalid quantization value makes load_model_for_training and
\* load_model_for_inference raise before get_device_map is evaluated and
\* before any config, tokenizer or model is loaded, and makes
\* find_all_linear_names raise ValueError before it scans any module.
C6_InvalidQuantizationRaisesFirst ==
    /\ LoaderCalled /\ call.args.quantization \notin ValidQuantizations
       => /\ result.exc \in {"AssertionError", "ValueError"}
          /\ result.calls = <<>>
          /\ result.device_map = [t |-> "unset"]
          /\ ~result.returned
    /\ pc = "done" /\ call.fn = "find_all_linear_names"
       /\ call.args.quantization \notin ValidQuantizations
       => result.exc = "ValueError" /\ ~result.scanned

\* C6 witness: load_model_for_training was called with quantization 16 and
\* LoRA, so that only the check of the value stops it
C6_Witness ==
    /\ LoaderCalled /\ call.fn = "training"
    /\ call.args.quantization = IntV(16) /\ call.args.use_lora

\* C7 as stated: once the config is loaded and its model_type is in neither
\* mapping, the loaders raise ValueError with no model from_pretrained call
\* made, no LoRA or adapter step run and nothing returned.
C7_UnsupportedModelTypeRaisesValueError ==
    LoaderCalled /\ HasCall(ConfigCalls)
    /\ call.env.model_type \notin SEQ2SEQ_NAMES \cup CAUSAL_NAMES \cup ADDED_CAUSAL_NAMES
    => /\ result.exc = "ValueError"
       /\ ~HasCall(ModelCalls)
       /\ ~HasCall(AdapterCalls)
       /\ ~result.returned

\* C8: load_model_for_training raises ValueError whenever quantization is 4
\* or 8 and use_lora is False, whatever the other arguments, before
\* get_device_map is called and before any config, tokenizer or model is
\* loaded.
C8_QuantizationNeedsLora ==
    pc = "done" /\ call.fn = "training"
    /\ call.args.quantization \in {IntV(4), IntV(8), StrV("4"), StrV("8")}
    /\ ~call.args.use_lora
    => /\ result.exc = "ValueError"
       /\ result.calls = <<>>
       /\ result.device_map = [t |-> "unset"]
       /\ ~result.returned

\* C8 witness: load_model_for_training was called with quantization "4",
\* without LoRA, the auto device map forced in a DDP environment
C8_Witness ==
    /\ pc = "done" /\ call.fn = "training"
    /\ call.args.quantization = StrV("4") /\ ~call.args.use_lora
    /\ call.args.force_auto_device_map /\ InDDP(call.env)

\* the rank LOCAL_RANK gives, 0 when it is not set
RankOf(e) == IF e.LOCAL_RANK = "unset" THEN 0 ELSE IntOfText(e.LOCAL_RANK)

\* C9 as stated: whenever get_device_map returns, it returns "auto" with
\* force_auto_device_map True, and with force_auto_device_map False it
\* returns {"": LOCAL_RANK} when LOCAL_WORLD_SIZE > 1 and None otherwise,
\* never "auto".
C9_DeviceMapFollowsDocstring ==
    pc = "done" /\ call.fn = "get_device_map" /\ result.exc = "none"
    => IF call.args.force_auto_device_map
       THEN result.value = StrV("auto")
       ELSE /\ result.value # StrV("auto")
            /\ result.value = IF InDDP(call.env) THEN DictV(RankOf(call.env)) ELSE NoneV

\* C10: in load_model_for_training the use_better_transformer flag changes
\* nothing: the call ends as the call with the flag False and otherwise the
\* same arguments and environment ends, with the same device map and the
\* same calls in the same order, and BetterTransformer.transform is not among
\* them.
C10_BetterTransformerIgnoredInTraining ==
    pc = "done" /\ call.fn = "training"
    => LET plain == load_model_for_training(
                        [call.args EXCEPT !.use_better_transformer = FALSE],
                        call.env, CAUSAL_NAMES)
       IN /\ result.exc = plain.exc
          /\ result.device_map = plain.device_map
          /\ result.calls = plain.calls
          /\ result.model = plain.model
          /\ ~HasCall({"BetterTransformer.transform"})

\* C10 witness: load_model_for_training returned a model after a call with
\* use_better_transformer True, on a single process, no auto device map
C10_Witness ==
    /\ pc = "done" /\ call.fn = "training"
    /\ call.args.use_better_transformer
    /\ ~call.args.force_auto_device_map /\ ~InDDP(call.env)
    /\ result.returned /\ HasCall(ModelCalls)

\* the call asks for 4-bit quantization and leaves the compute dtype to the
\* loader, and nothing else stops it: LoRA is on in training, the device map
\* can be made, the tokenizer check passes and the model type is supported
FourBitDefaultDtypeCall ==
    /\ LoaderCalled
    /\ call.args.quantization \in {IntV(4), StrV("4")}
    /\ call.args.torch_dtype \in {StrV("auto"), NoneV}
    /\ call.fn = "training" => call.args.use_lora
    /\ ~(call.args.force_auto_device_map /\ InDDP(call.env))
    /\ call.fn = "training" => call.env.lt_ok \/ call.args.add_labels_as_tokens
    /\ call.env.model_type \in SEQ2SEQ_NAMES \cup CAUSAL_NAMES \cup ADDED_CAUSAL_NAMES

\* C11 as stated: with quantization 4 (and LoRA in training) and torch_dtype
\* "auto" or None, the loaders build a 4-bit BitsAndBytes configuration whose
\* compute dtype is a torch dtype and reach the model from_pretrained call
\* without raising.
C11_FourBitDefaultDtypeLoads ==
    FourBitDefaultDtypeCall
    => /\ result.exc = "none"
       /\ result.bnb_config # NoneV
       /\ result.bnb_config.bits = 4
       /\ result.bnb_config.compute_dtype \in {DtypeV(x) : x \in TorchAttrs}
       /\ HasCall(ModelCalls)

\* the LoRA weights argument names weights: it is neither None nor empty
LoraWeightsGiven == call.args.lora_weights_name_or_path \notin {NoneV, StrV("")}

\* C12: in load_model_for_inference, merge_and_unload is called only with
\* LoRA weights given and quantization None; a call that returns with LoRA
\* weights given returns the merged model when quantization is None and the
\* un-merged PeftModel when it is 4 or 8; with no LoRA weights neither
\* PeftModel.from_pretrained nor merge_and_unload is called.
C12_MergeIffNoQuantization ==
    pc = "done" /\ call.fn = "inference"
    => /\ HasCall({"model.merge_and_unload"})
          => LoraWeightsGiven /\ call.args.quantization = NoneV
       /\ result.returned /\ LoraWeightsGiven
          => /\ HasCall({"PeftModel.from_pretrained"})
             /\ HasCall({"model.merge_and_unload"}) <=> call.args.quantization = NoneV
             /\ result.model.peft =
                   IF call.args.quantization = NoneV THEN "merged" ELSE "peft"
             /\ call.args.quantization \in {IntV(4), IntV(8), StrV("4"), StrV("8")}
                => result.model.peft = "peft" /\ result.model.quantization_config # NoneV
       /\ ~LoraWeightsGiven
          => ~HasCall({"PeftModel.from_pretrained", "model.merge_and_unload"})

\* C12 witness: load_model_for_inference returned the un-merged PeftModel
\* after a call with LoRA weights and 4-bit quantization
C12_Witness ==
    /\ pc = "done" /\ call.fn = "inference" /\ result.returned
    /\ LoraWeightsGiven /\ call.args.quantization = IntV(4)
    /\ result.model.peft = "peft"

====
